---- MODULE Spec2Model ----
(***************************************************************************)
(* Model of typlate's TemplateString<T>: the parser (FromStr::from_str),   *)
(* the renderer (TemplateString::format), the canonical serializer         *)
(* (Display::fmt) and the serde adapter (Serialize / Visitor::visit_str).  *)
(*                                                                         *)
(* A string is a sequence of one-character strings.  from_str is modelled  *)
(* one character-iterator step at a time: `pos` is the position of the     *)
(* Peekable<Chars> iterator, `text`, `elements` and `name` are the locals  *)
(* of from_str, `pc` tells whether control is in the outer `while let`     *)
(* loop ("scan"), in the inner `for char in chars.by_ref()` loop ("name")  *)
(* or has returned ("done").  Locals keep their last value after the       *)
(* return; the value handed to the caller is `result`.                     *)
(***************************************************************************)
EXTENDS Integers, Sequences, FiniteSets, TLC

\* Longest source string handed to from_str.
MaxLen == 4

\* Longest field list T::FIELDS.
MaxFields == 2

\* Characters of the source strings: the two meta-characters, a letter in
\* both cases and a blank.
Alphabet == {"{", "}", "a", "A", " "}

\* Field names a provider may declare (the empty name and a name holding a
\* brace included: FIELDS is any &'static [&'static str]).
Names == {<<>>, <<"a">>, <<"A">>, <<"a", "{">>}

\* Texts fmt_field may write for a field; one of them holds braces.
FieldValues == {<<"4", "2">>, <<"{", "a", "}">>}

StringsUpTo(n) == UNION {[1..k -> Alphabet] : k \in 0..n}

FieldLists == UNION {[1..k -> Names] : k \in 0..MaxFields}

\* Option<usize>::None of Iterator::position.
NoIndex == -1

Text(s) == [tag |-> "Text", text |-> s, index |-> NoIndex]

Var(i) == [tag |-> "Var", text |-> <<>>, index |-> i]

NoResult == [tag |-> "None", elements |-> <<>>, err |-> <<>>]

Ok(es) == [tag |-> "Ok", elements |-> es, err |-> <<>>]

Err(msg) == [tag |-> "Err", elements |-> <<>>, err |-> msg]

UnknownFieldMsg(nm) == <<"Unknown field name: ">> \o nm

UnclosedMsg == <<"Unclosed bracket in template">>

UnmatchedMsg == <<"Unmatched closing bracket">>

\* de::Error::custom(msg): the decode failure wrapping the parse error.
Custom(msg) == <<"custom">> \o msg

\* value.parse().map_err(de::Error::custom)
MapErr(r) == IF r.tag = "Err" THEN Err(Custom(r.err)) ELSE r

\* Mutant: rposition(), the last matching entry instead of the first.
PositionLast(fs, nm) ==
  IF \E i \in 1..Len(fs) : fs[i] = nm
  THEN (CHOOSE i \in 1..Len(fs) : fs[i] = nm /\ \A j \in (i + 1)..Len(fs) : fs[j] # nm) - 1
  ELSE NoIndex

FoldCase(s) == [i \in 1..Len(s) |-> IF s[i] = "A" THEN "a" ELSE s[i]]

\* Mutant: f.eq_ignore_ascii_case(&name) instead of f == name.
PositionIgnoreCase(fs, nm) ==
  IF \E i \in 1..Len(fs) : FoldCase(fs[i]) = FoldCase(nm)
  THEN (CHOOSE i \in 1..Len(fs) :
          FoldCase(fs[i]) = FoldCase(nm) /\ \A j \in 1..(i - 1) : FoldCase(fs[j]) # FoldCase(nm)) - 1
  ELSE NoIndex

\* T::FIELDS.iter().position(|&f| f == name), 0-based, NoIndex for None.
Position(fs, nm) ==
  IF \E i \in 1..Len(fs) : fs[i] = nm
  THEN (CHOOSE i \in 1..Len(fs) : fs[i] = nm /\ \A j \in 1..(i - 1) : fs[j] # nm) - 1
  ELSE NoIndex

\* Mutant: the is_empty() test is missing.
FlushAlways(es, t) == Append(es, Text(t))

\* if !text.is_empty() { elements.push(TemplateElement::Text(text)) }
Flush(es, t) == IF t # <<>> THEN Append(es, Text(t)) ELSE es

\* Mutant: braces of a Text are written once.
EscapeCharSingle(c) == <<c>>

\* The match on one char of a Text element in Display::fmt.
EscapeChar(c) == IF c = "{" THEN <<"{", "{">> ELSE IF c = "}" THEN <<"}", "}">> ELSE <<c>>

RECURSIVE EscapeText(_)
EscapeText(s) == IF s = <<>> THEN <<>> ELSE EscapeChar(Head(s)) \o EscapeText(Tail(s))

\* Mutant: a Text is written with write_str(text), unescaped.
DisplayElementRaw(e, fs) ==
  IF e.tag = "Text" THEN e.text ELSE <<"{">> \o fs[e.index + 1] \o <<"}">>

\* One element written by Display::fmt.
DisplayElement(e, fs) ==
  IF e.tag = "Text" THEN EscapeText(e.text) ELSE <<"{">> \o fs[e.index + 1] \o <<"}">>

RECURSIVE Display(_, _)
Display(es, fs) == IF es = <<>> THEN <<>> ELSE DisplayElement(Head(es), fs) \o Display(Tail(es), fs)

\* Mutant: the field's text is escaped like template text.
FormatElementEscaped(e, v) == IF e.tag = "Text" THEN e.text ELSE EscapeText(v[e.index + 1])

\* One element written by ParameterizedTemplate's Display::fmt; v[i + 1] is
\* what fmt_field writes for index i.
FormatElement(e, v) == IF e.tag = "Text" THEN e.text ELSE v[e.index + 1]

RECURSIVE Format(_, _)
Format(es, v) == IF es = <<>> THEN <<>> ELSE FormatElement(Head(es), v) \o Format(Tail(es), v)

VARIABLES template, fields, mode, pos, text, elements, name, pc, result,
          visited, formatted, params, wire, original

vars == <<template, fields, mode, pos, text, elements, name, pc, result,
          visited, formatted, params, wire, original>>

\* chars.peek() == Some(&c), after the current char at `pos` has been taken.
PeekIs(c) == pos + 1 <= Len(template) /\ template[pos + 1] = c

Init ==
  /\ template \in StringsUpTo(MaxLen)
  /\ fields \in FieldLists
  /\ mode \in {"from_str", "visit_str"}
  /\ pos = 1
  /\ text = <<>>
  /\ elements = <<>>
  /\ name = <<>>
  /\ pc = "scan"
  /\ result = NoResult
  /\ visited = NoResult
  /\ formatted = <<>>
  /\ params = <<>>
  /\ wire = <<>>
  /\ original = NoResult

\* from_str returns r; under visit_str the adapter maps the error.
Return(r) ==
  /\ pc' = "done"
  /\ result' = r
  /\ visited' = IF mode = "visit_str" THEN MapErr(r) ELSE visited

Running == UNCHANGED <<result, visited>>

Fixed == UNCHANGED <<template, fields, mode, formatted, params, wire, original>>

\* '{' followed by '{': the escape for a literal '{'.
EscapeOpen ==
  /\ pc = "scan" /\ pos <= Len(template) /\ template[pos] = "{" /\ PeekIs("{")
  /\ pos' = pos + 2
  /\ text' = Append(text, "{")
  /\ UNCHANGED <<elements, name, pc>>
  /\ Running /\ Fixed

\* '{' not followed by '{': flush the literal run and enter the name loop.
OpenPlaceholder ==
  /\ pc = "scan" /\ pos <= Len(template) /\ template[pos] = "{" /\ ~PeekIs("{")
  /\ pos' = pos + 1
  /\ elements' = Flush(elements, text)
  /\ text' = <<>>
  /\ name' = <<>>
  /\ pc' = "name"
  /\ Running /\ Fixed

\* Mutant: "{{" inside a name is read as the escape for one "{".
NameCharEscapes ==
  /\ pc = "name" /\ pos <= Len(template) /\ template[pos] # "}"
  /\ pos' = IF template[pos] = "{" /\ PeekIs("{") THEN pos + 2 ELSE pos + 1
  /\ name' = Append(name, template[pos])
  /\ UNCHANGED <<text, elements, pc>>
  /\ Running /\ Fixed

\* Inner loop, char != '}': name.push(char).
NameChar ==
  /\ pc = "name" /\ pos <= Len(template) /\ template[pos] # "}"
  /\ pos' = pos + 1
  /\ name' = Append(name, template[pos])
  /\ UNCHANGED <<text, elements, pc>>
  /\ Running /\ Fixed

\* Inner loop, char == '}', position() is Some(index).
CloseKnown ==
  /\ pc = "name" /\ pos <= Len(template) /\ template[pos] = "}"
  /\ Position(fields, name) # NoIndex
  /\ pos' = pos + 1
  /\ elements' = Append(elements, Var(Position(fields, name)))
  /\ pc' = "scan"
  /\ UNCHANGED <<text, name>>
  /\ Running /\ Fixed

\* Inner loop, char == '}', position() is None: the `?` returns the error.
CloseUnknown ==
  /\ pc = "name" /\ pos <= Len(template) /\ template[pos] = "}"
  /\ Position(fields, name) = NoIndex
  /\ pos' = pos + 1
  /\ Return(Err(UnknownFieldMsg(name)))
  /\ UNCHANGED <<text, elements, name>>
  /\ Fixed

\* Mutant: an unclosed placeholder is kept as literal text.
UnclosedAsText ==
  /\ pc = "name" /\ pos > Len(template)
  /\ elements' = Append(elements, Text(<<"{">> \o name))
  /\ Return(Ok(Append(elements, Text(<<"{">> \o name))))
  /\ UNCHANGED <<pos, text, name>>
  /\ Fixed

\* Inner loop exhausted the iterator.
Unclosed ==
  /\ pc = "name" /\ pos > Len(template)
  /\ Return(Err(UnclosedMsg))
  /\ UNCHANGED <<pos, text, elements, name>>
  /\ Fixed

\* '}' followed by '}': the escape for a literal '}'.
EscapeClose ==
  /\ pc = "scan" /\ pos <= Len(template) /\ template[pos] = "}" /\ PeekIs("}")
  /\ pos' = pos + 2
  /\ text' = Append(text, "}")
  /\ UNCHANGED <<elements, name, pc>>
  /\ Running /\ Fixed

\* Mutant: a lone "}" is kept as literal text.
LoneCloseAsText ==
  /\ pc = "scan" /\ pos <= Len(template) /\ template[pos] = "}" /\ ~PeekIs("}")
  /\ pos' = pos + 1
  /\ text' = Append(text, "}")
  /\ UNCHANGED <<elements, name, pc>>
  /\ Running /\ Fixed

\* '}' not followed by '}'.
UnmatchedClose ==
  /\ pc = "scan" /\ pos <= Len(template) /\ template[pos] = "}" /\ ~PeekIs("}")
  /\ pos' = pos + 1
  /\ Return(Err(UnmatchedMsg))
  /\ UNCHANGED <<text, elements, name>>
  /\ Fixed

\* Any other char: text.push(char).
Literal ==
  /\ pc = "scan" /\ pos <= Len(template) /\ template[pos] \notin {"{", "}"}
  /\ pos' = pos + 1
  /\ text' = Append(text, template[pos])
  /\ UNCHANGED <<elements, name, pc>>
  /\ Running /\ Fixed

\* Mutant: the final flush is missing.
FinishNoFlush ==
  /\ pc = "scan" /\ pos > Len(template)
  /\ Return(Ok(elements))
  /\ UNCHANGED <<pos, text, elements, name>>
  /\ Fixed

\* Outer loop exhausted the iterator: final flush and Ok.
Finish ==
  /\ pc = "scan" /\ pos > Len(template)
  /\ elements' = Flush(elements, text)
  /\ Return(Ok(Flush(elements, text)))
  /\ UNCHANGED <<pos, text, name>>
  /\ Fixed

\* TemplateString::format(&params) on the compiled template.
FormatTemplate ==
  /\ pc = "done" /\ result.tag = "Ok" /\ formatted = <<>>
  /\ \E v \in [1..Len(fields) -> FieldValues] :
       /\ params' = v
       /\ formatted' = <<Format(result.elements, v)>>
  /\ UNCHANGED <<template, fields, mode, pos, text, elements, name, pc, result,
                 visited, wire, original>>

\* Serialize::serialize: serializer.serialize_str(&self.to_string()).
Serialize ==
  /\ pc = "done" /\ result.tag = "Ok" /\ wire = <<>>
  /\ wire' = <<Display(result.elements, fields)>>
  /\ UNCHANGED <<template, fields, mode, pos, text, elements, name, pc, result,
                 visited, formatted, params, original>>

\* Deserialize::deserialize on the serialized string: visit_str starts
\* from_str on it; `original` keeps the template that was serialized.
Deserialize ==
  /\ pc = "done" /\ wire # <<>> /\ original.tag = "None"
  /\ original' = result
  /\ template' = wire[1]
  /\ mode' = "visit_str"
  /\ pos' = 1
  /\ text' = <<>>
  /\ elements' = <<>>
  /\ name' = <<>>
  /\ pc' = "scan"
  /\ result' = NoResult
  /\ visited' = NoResult
  /\ formatted' = <<>>
  /\ params' = <<>>
  /\ UNCHANGED <<fields, wire>>

Next ==
  \/ EscapeOpen
  \/ OpenPlaceholder
  \/ NameChar
  \/ CloseKnown
  \/ CloseUnknown
  \/ Unclosed
  \/ EscapeClose
  \/ UnmatchedClose
  \/ Literal
  \/ Finish
  \/ FormatTemplate
  \/ Serialize
  \/ Deserialize

Spec == Init /\ [][Next]_vars

TypeOK ==
  /\ pc \in {"scan", "name", "done"}
  /\ pos \in 1..(Len(template) + 1)
  /\ result.tag \in {"None", "Ok", "Err"}
  /\ (pc = "done") = (result.tag # "None")

----------------------------------------------------------------------------
(* Reference reading of a source string, independent of the scanner: the   *)
(* source is cut left to right into tokens.  `s` is the literal character  *)
(* of an "open" / "close" / "char" token, the name of a "field" token, the *)
(* characters after the opener of an "unclosed" token.                     *)

Tok(k, s) == [kind |-> k, s |-> s]

FirstClose(s) == CHOOSE k \in 2..Len(s) : s[k] = "}" /\ \A j \in 2..(k - 1) : s[j] # "}"

RECURSIVE Tokens(_)
Tokens(s) ==
  IF s = <<>> THEN <<>>
  ELSE IF s[1] = "{" THEN
    IF Len(s) >= 2 /\ s[2] = "{"
    THEN <<Tok("open", <<"{">>)>> \o Tokens(SubSeq(s, 3, Len(s)))
    ELSE IF \E k \in 2..Len(s) : s[k] = "}"
    THEN <<Tok("field", SubSeq(s, 2, FirstClose(s) - 1))>>
           \o Tokens(SubSeq(s, FirstClose(s) + 1, Len(s)))
    ELSE <<Tok("unclosed", SubSeq(s, 2, Len(s)))>>
  ELSE IF s[1] = "}" THEN
    IF Len(s) >= 2 /\ s[2] = "}"
    THEN <<Tok("close", <<"}">>)>> \o Tokens(SubSeq(s, 3, Len(s)))
    ELSE <<Tok("stray", <<"}">>)>>
  ELSE <<Tok("char", <<s[1]>>)>> \o Tokens(Tail(s))

Range(f) == {f[i] : i \in 1..Len(f)}

IsFieldTok(t) == t.kind = "field"

IsVar(e) == e.tag = "Var"

IsBrace(c) == c \in {"{", "}"}

\* Positions of the field tokens whose name is no element of `fields`.
UnknownToks == {k \in 1..Len(Tokens(template)) :
                  Tokens(template)[k].kind = "field" /\ Tokens(template)[k].s \notin Range(fields)}

FirstUnknown == CHOOSE k \in UnknownToks : \A j \in UnknownToks : k <= j

LastTokKind == IF Tokens(template) = <<>> THEN "none"
               ELSE Tokens(template)[Len(Tokens(template))].kind

\* 0-based index of the first entry of fs equal to nm.
FirstIndexOf(fs, nm) == (CHOOSE i \in 1..Len(fs) : fs[i] = nm /\ \A j \in 1..(i - 1) : fs[j] # nm) - 1

RECURSIVE TokenMap(_, _, _)
TokenMap(toks, fs, v) ==
  IF toks = <<>> THEN <<>>
  ELSE (IF Head(toks).kind = "field" THEN v[FirstIndexOf(fs, Head(toks).s) + 1] ELSE Head(toks).s)
         \o TokenMap(Tail(toks), fs, v)

Compiled == pc = "done" /\ result.tag = "Ok"

FirstParse == original.tag = "None"

\* C1: re-parsing the serialized form of a compiled template succeeds and
\* yields the element sequence that was serialized.
C1_RoundTrip ==
  (original.tag = "Ok" /\ pc = "done") =>
     /\ result = Ok(original.elements)
     /\ visited = result

C1_Witness ==
  /\ original.tag = "Ok" /\ pc = "done"
  /\ Len(original.elements) >= 2
  /\ \E k \in 1..Len(original.elements) :
       original.elements[k].tag = "Text" /\ \E c \in Range(original.elements[k].text) : IsBrace(c)
  /\ \E k \in 1..Len(original.elements) : original.elements[k].tag = "Var"

\* C2: the rendered string is the concatenation of the source's tokens:
\* "{{" gives "{", "}}" gives "}", a placeholder gives the provider's text
\* for that field verbatim, any other character gives itself.
C2_RenderIsTokenMap ==
  formatted # <<>> => formatted[1] = TokenMap(Tokens(template), fields, params)

C2_Witness ==
  /\ formatted # <<>> /\ FirstParse
  /\ \E k \in 1..Len(Tokens(template)) : Tokens(template)[k].kind = "open"
  /\ \E k \in 1..Len(Tokens(template)) :
       /\ Tokens(template)[k].kind = "field"
       /\ params[FirstIndexOf(fields, Tokens(template)[k].s) + 1] = <<"{", "a", "}">>

\* C3: every Var index is inside FIELDS, names the placeholder written in
\* the source and is the first index holding that name.
C3_FieldRefResolved ==
  /\ \A k \in 1..Len(elements) :
       elements[k].tag = "Var" => elements[k].index \in 0..(Len(fields) - 1)
  /\ Compiled =>
       LET names == SelectSeq(Tokens(template), IsFieldTok)
           refs == SelectSeq(result.elements, IsVar)
       IN /\ Len(refs) = Len(names)
          /\ \A k \in 1..Len(refs) :
               /\ refs[k].index \in 0..(Len(fields) - 1)
               /\ fields[refs[k].index + 1] = names[k].s
               /\ \A j \in 0..(refs[k].index - 1) : fields[j + 1] # names[k].s

C3_Witness ==
  /\ Compiled
  /\ Len(fields) = 2 /\ fields[1] = fields[2]
  /\ \E k \in 1..Len(result.elements) : result.elements[k] = Var(0)
  /\ wire # <<>> /\ formatted # <<>>

\* C4: a closed placeholder whose name is no element of FIELDS (exact
\* equality) makes from_str fail with "Unknown field name: <name>", no
\* template is returned, and visit_str fails too.
C4_UnknownField ==
  (pc = "done" /\ UnknownToks # {}) =>
     /\ result = Err(UnknownFieldMsg(Tokens(template)[FirstUnknown].s))
     /\ result.elements = <<>>
     /\ (mode = "visit_str" => visited.tag = "Err")

C4_Witness ==
  /\ pc = "done" /\ mode = "visit_str"
  /\ <<"a">> \in Range(fields)
  /\ template \in {<<"{", " ", "a", "}">>, <<"a", "{", "A", "}">>}
  /\ visited.tag = "Err"

\* C5: an opened placeholder with no "}" after it makes from_str fail with
\* "Unclosed bracket in template", whatever the characters read so far.
C5_Unclosed ==
  (pc = "done" /\ LastTokKind = "unclosed" /\ UnknownToks = {}) =>
     result = Err(UnclosedMsg)

C5_Witness ==
  /\ pc = "done" /\ LastTokKind = "unclosed" /\ result = Err(UnclosedMsg)
  /\ name \in Range(fields) /\ name # <<>>

C5_WitnessBare ==
  /\ pc = "done" /\ result = Err(UnclosedMsg)
  /\ template # <<>> /\ template[Len(template)] = "{" /\ name = <<>>

\* C6: outside a placeholder a "}" not followed by "}" makes from_str fail
\* with "Unmatched closing bracket".
C6_UnmatchedClose ==
  (pc = "done" /\ LastTokKind = "stray" /\ UnknownToks = {}) =>
     result = Err(UnmatchedMsg)

C6_Witness ==
  /\ pc = "done" /\ result = Err(UnmatchedMsg)
  /\ template = <<"}", "}", "}">>

\* C7: a source without braces compiles and renders to itself.
C7_PlainText ==
  (pc = "done" /\ \A i \in 1..Len(template) : ~IsBrace(template[i])) =>
     /\ result.tag = "Ok"
     /\ formatted # <<>> => formatted[1] = template

C7_Witness ==
  /\ pc = "done" /\ formatted # <<>> /\ Len(template) >= 2
  /\ \A i \in 1..Len(template) : ~IsBrace(template[i])
  /\ Len(fields) > 0

\* C8: a compiled element sequence has no empty Text, no two adjacent
\* Texts, and is empty exactly when the source is empty.
C8_Coalesced ==
  Compiled =>
     /\ \A k \in 1..Len(result.elements) :
          result.elements[k].tag = "Text" => result.elements[k].text # <<>>
     /\ \A k \in 1..(Len(result.elements) - 1) :
          ~(result.elements[k].tag = "Text" /\ result.elements[k + 1].tag = "Text")
     /\ (result.elements = <<>>) <=> (template = <<>>)

C8_Witness ==
  /\ Compiled /\ Len(result.elements) = 2
  /\ result.elements[1].tag = "Text" /\ Len(result.elements[1].text) = 2
  /\ result.elements[2].tag = "Var"

\* C9: inside a placeholder the name is the run of characters from the
\* opener up to the first "}", braces "{" included; the placeholder closes
\* at that "}" even when another "}" follows.
C9_NameVerbatim ==
  /\ pc = "name" =>
       /\ pos - Len(name) - 1 >= 1
       /\ template[pos - Len(name) - 1] = "{"
       /\ name = SubSeq(template, pos - Len(name), pos - 1)
       /\ "}" \notin Range(name)
  /\ \A i \in 1..Len(fields) :
       ("}" \notin Range(fields[i]) /\ (fields[i] = <<>> \/ fields[i][1] # "{") /\ pc = "done") =>
          /\ template = <<"{">> \o fields[i] \o <<"}">>
               => result = Ok(<<Var(FirstIndexOf(fields, fields[i]))>>)
          /\ template = <<"{">> \o fields[i] \o <<"}", "}">>
               => (result = Err(UnmatchedMsg) /\ elements = <<Var(FirstIndexOf(fields, fields[i]))>>)
          /\ template = <<"{">> \o fields[i] \o <<"}", "}", "}">>
               => result = Ok(<<Var(FirstIndexOf(fields, fields[i])), Text(<<"}">>)>>)

C9_Witness ==
  /\ pc = "done" /\ result.tag = "Ok"
  /\ template = <<"{", "a", "{", "}">>

C9_WitnessDouble ==
  /\ pc = "done" /\ Len(template) >= 4
  /\ template[Len(template) - 1] = "}" /\ template[Len(template) - 2] = "}"
  /\ result.tag = "Ok" /\ Len(result.elements) = 2 /\ result.elements[1].tag = "Var"

\* C10: the serialized form of a compiled template is the source it was
\* compiled from, character for character.
C10_CanonicalIsSource ==
  (wire # <<>> /\ FirstParse) => wire[1] = template

C10_Witness ==
  /\ wire # <<>> /\ FirstParse
  /\ \E k \in 1..Len(result.elements) : result.elements[k].tag = "Var"
  /\ \E k \in 1..Len(result.elements) :
       result.elements[k].tag = "Text" /\ \E c \in Range(result.elements[k].text) : IsBrace(c)
====
